---- MODULE Spec2Model ----
(***************************************************************************)
(* The LinkedIn post bot (main.py, post_generator.py): the orchestrator    *)
(* main(), run again and again by an external scheduler, one process at a  *)
(* time, over the persisted ledger published.db.                           *)
(*                                                                         *)
(* Python values are modelled as follows.                                  *)
(*   - None is the string None; a dictionary key that is absent from a     *)
(*     fetched article is the string KeyAbsent. No url is spelled so.      *)
(*   - A publishedAt string is a record [form, t, tz]: form says whether   *)
(*     the text is empty, malformed or ISO 8601; t is its wall-clock time  *)
(*     in ticks of one hour counted from 2025-12-11T00:00:00, and tz its   *)
(*     suffix ("Z", "+00:00", "+01:00", or "" for none).                   *)
(*   - A datetime is a record [none, aware, local, offset].                *)
(*   - A generated text is a record [ws, body]: ws whitespace characters   *)
(*     around body non-whitespace ones.                                    *)
(* An article's title, description and body are opaque to the orchestrator *)
(* (they are only passed to the language model and printed) and are left   *)
(* out of the article record.                                              *)
(***************************************************************************)
EXTENDS Integers, Sequences, FiniteSets, TLC

\* Longest article list a fetch returns in the model.
MaxFeed == 2

None == "<None>"
KeyAbsent == "<absent>"

\* The links an article of the feed can carry: a url, or no "link" key at all.
Links == {"a", "b", KeyAbsent}

EmptyStr == [form |-> "empty", t |-> 0, tz |-> ""]
AbsentDate == [form |-> "absent", t |-> 0, tz |-> ""]
Malformed == [form |-> "malformed", t |-> 0, tz |-> ""]
Iso(t, tz) == [form |-> "iso", t |-> t, tz |-> tz]

\* The publishedAt values an article of the feed can carry.
Dates ==
    { AbsentDate, Malformed,
      Iso(-1, "Z"), Iso(0, "Z"), Iso(0, "+01:00"), Iso(0, "") }

Candidates == [link : Links, publishedAt : Dates]

Feeds == UNION { [1..n -> Candidates] : n \in 0..MaxFeed }

\* MIN_PUBLISH_DATE = datetime(2025, 12, 11, tzinfo=timezone.utc): tick 0.
MIN_PUBLISH_DATE == [none |-> FALSE, aware |-> TRUE, local |-> 0, offset |-> 0]

NoDatetime == [none |-> TRUE, aware |-> FALSE, local |-> 0, offset |-> 0]

\* len(post_text.strip()) < 20
MinPostLength == 20

VARIABLES
    pc,              \* position of the running process in main()
    env,             \* os.environ: LINKEDIN_ACCESS_TOKEN, ARTICLES_API_URL
    db_exists,       \* published.db and its table exist
    ledger,          \* rows of published_articles, in insertion order
    published_urls,  \* main's local
    articles,        \* main's local
    new_articles,    \* main's local
    article,         \* main's local
    post_text,       \* main's local
    article_url,     \* main's local
    exit_code,       \* the exit status of the process, Running until it exits
    error,           \* what ended the run, "none" while it runs or on success
    calls,           \* the external calls and ledger writes of this run, in order
    start_ledger,    \* the ledger as the run found it
    backups,         \* the files of backups/, each named by the second it was made in
    now              \* datetime.now(), in seconds

vars == << pc, env, db_exists, ledger, published_urls, articles, new_articles,
           article, post_text, article_url, exit_code, error, calls, start_ledger,
           backups, now >>

NoArticle == [link |-> KeyAbsent, publishedAt |-> AbsentDate]
NoText == [ws |-> 0, body |-> 0]

----------------------------------------------------------------------------
\* dict.get(key) and dict.get(key, default) on a value that may be absent.

DictGet(v) == IF v = KeyAbsent THEN None ELSE v

DictGetDefault(v, default) == IF v = KeyAbsent THEN default ELSE v

DateGetDefault(v, default) == IF v.form = "absent" THEN default ELSE v

----------------------------------------------------------------------------
\* The ledger (sqlite table published_articles).

Range(s) == { s[i] : i \in DOMAIN s }

\* get_published_urls
get_published_urls(rows) == { r.url : r \in Range(rows) }

\* Mutant: the url column without its UNIQUE constraint.
InsertAllowedNotNullOnly(rows, url) == url # None

\* The constraints of the url column: NOT NULL and UNIQUE.
InsertAllowed(rows, url) ==
    /\ url # None
    /\ \A r \in Range(rows) : r.url # url

\* INSERT INTO published_articles (url, ...): AUTOINCREMENT id.
InsertRow(rows, url) == Append(rows, [id |-> Len(rows) + 1, url |-> url])

\* save_published_article: the row is inserted, or sqlite3.IntegrityError is
\* raised and the table is as it was.
save_published_article(rows, url) ==
    IF InsertAllowed(rows, url)
    THEN [ok |-> TRUE, rows |-> InsertRow(rows, url)]
    ELSE [ok |-> FALSE, rows |-> rows]

----------------------------------------------------------------------------
\* parse_publish_date and the eligibility loop of main.

ReplaceZ(s) == IF s.tz = "Z" THEN [s EXCEPT !.tz = "+00:00"] ELSE s

TzOffset(tz) == IF tz = "+01:00" THEN 1 ELSE 0

\* datetime.fromisoformat: ValueError is reported as none |-> TRUE. A "Z"
\* suffix is what the caller replaces beforehand (this function rejects it
\* before Python 3.11).
fromisoformat(s) ==
    IF s.form # "iso" \/ s.tz = "Z"
    THEN NoDatetime
    ELSE [none |-> FALSE, aware |-> s.tz # "", local |-> s.t,
          offset |-> TzOffset(s.tz)]

parse_publish_date(date_str) ==
    IF date_str.form = "empty"
    THEN NoDatetime
    ELSE fromisoformat(ReplaceZ(date_str))

\* pub_date >= MIN_PUBLISH_DATE of two aware datetimes.
DatetimeGE(x, y) == x.local - x.offset >= y.local - y.offset

\* One iteration of the loop over the fetched articles:
\* "continue", "discard", "append", or "TypeError" (naive against aware).
Decide(a, known) ==
    IF DictGet(a.link) \in known
    THEN "continue"
    ELSE LET pub_date == parse_publish_date(DateGetDefault(a.publishedAt, EmptyStr))
         IN  IF pub_date.none THEN "discard"
             ELSE IF ~pub_date.aware THEN "TypeError"
             ELSE IF DatetimeGE(pub_date, MIN_PUBLISH_DATE) THEN "append"
             ELSE "discard"

RECURSIVE FilterFrom(_, _, _, _)
FilterFrom(arts, known, i, acc) ==
    IF i > Len(arts)
    THEN [raised |-> FALSE, at |-> 0, new_articles |-> acc]
    ELSE LET d == Decide(arts[i], known)
         IN  IF d = "TypeError"
             THEN [raised |-> TRUE, at |-> i, new_articles |-> acc]
             ELSE FilterFrom(arts, known, i + 1,
                             IF d = "append" THEN Append(acc, arts[i]) ELSE acc)

FilterArticles(arts, known) == FilterFrom(arts, known, 1, << >>)

----------------------------------------------------------------------------
\* generate_linkedin_post: the language model raises, or returns a text.

LlmTexts ==
    { [ws |-> 0, body |-> 0], [ws |-> 2, body |-> 0],
      [ws |-> 2, body |-> MinPostLength - 1], [ws |-> 2, body |-> MinPostLength] }

TextLen(t) == t.ws + t.body

StripLen(t) == t.body

\* Mutant: the validation without its length test.
PostInvalidEmptyOnly(t) == TextLen(t) = 0

\* not post_text or len(post_text.strip()) < 20
PostInvalid(t) == TextLen(t) = 0 \/ StripLen(t) < MinPostLength

GenerationFails(llm) == llm.raised \/ PostInvalid(llm.text)

\* generate_linkedin_post: the text as the model returned it, or
\* PostGenerationError (raised by the validation, or wrapping any exception).
generate_linkedin_post(llm) ==
    IF GenerationFails(llm)
    THEN [raised |-> TRUE, exc |-> "PostGenerationError", text |-> NoText]
    ELSE [raised |-> FALSE, exc |-> "none", text |-> llm.text]

\* What workflow.invoke can do: raise, or return a text.
LlmOutcomes ==
    { [raised |-> TRUE, text |-> NoText] }
        \cup { [raised |-> FALSE, text |-> t] : t \in LlmTexts }

----------------------------------------------------------------------------
\* The process.

Running == 0 - 1

NoError == [at |-> "none", exc |-> "none"]

Envs == [access_token : {None, "token"}, articles_api_url : {None, "url"}]

Call(op, url, ok) == [op |-> op, url |-> url, ok |-> ok]

Locals0 ==
    /\ published_urls = {}
    /\ articles = << >>
    /\ new_articles = << >>
    /\ article = NoArticle
    /\ post_text = NoText
    /\ article_url = None
    /\ exit_code = Running
    /\ error = NoError
    /\ calls = << >>

Init ==
    /\ pc = "main"
    /\ env \in Envs
    /\ db_exists = FALSE
    /\ ledger = << >>
    /\ start_ledger = << >>
    /\ backups = {}
    /\ now = 0
    /\ Locals0

\* return code, or an uncaught exception (the interpreter then exits with 1).
Exit(code, at, exc) ==
    /\ pc' = "exit"
    /\ exit_code' = code
    /\ error' = [at |-> at, exc |-> exc]

Goto(label) ==
    /\ pc' = label
    /\ UNCHANGED << exit_code, error >>

\* The check of lines 156-165 without its second test.
CheckConfigTokenOnly ==
    /\ pc = "main"
    /\ IF env.access_token = None
       THEN Exit(1, "config", "LINKEDIN_ACCESS_TOKEN not set")
       ELSE Goto("init_db")
    /\ UNCHANGED << env, db_exists, ledger, published_urls, articles,
                    new_articles, article, post_text, article_url, calls,
                    start_ledger, backups, now >>

\* main, lines 156-165.
CheckConfig ==
    /\ pc = "main"
    /\ IF env.access_token = None
       THEN Exit(1, "config", "LINKEDIN_ACCESS_TOKEN not set")
       ELSE IF env.articles_api_url = None
       THEN Exit(1, "config", "ARTICLES_API_URL not set")
       ELSE Goto("init_db")
    /\ UNCHANGED << env, db_exists, ledger, published_urls, articles,
                    new_articles, article, post_text, article_url, calls,
                    start_ledger, backups, now >>

\* Mutant: init_db that creates the table anew each time.
InitDbDropping ==
    /\ pc = "init_db"
    /\ db_exists' = TRUE
    /\ ledger' = << >>
    /\ calls' = Append(calls, Call("init_db", None, TRUE))
    /\ Goto("load")
    /\ UNCHANGED << env, published_urls, articles, new_articles, article,
                    post_text, article_url, start_ledger, backups, now >>

\* main, line 168: init_db(), or the store cannot be opened.
InitDb ==
    /\ pc = "init_db"
    /\ \/ /\ db_exists' = TRUE
          /\ calls' = Append(calls, Call("init_db", None, TRUE))
          /\ Goto("load")
       \/ /\ db_exists' = db_exists
          /\ calls' = Append(calls, Call("init_db", None, FALSE))
          /\ Exit(1, "init_db", "OperationalError")
    /\ UNCHANGED << env, ledger, published_urls, articles, new_articles,
                    article, post_text, article_url, start_ledger, backups, now >>

\* main, line 171.
LoadPublished ==
    /\ pc = "load"
    /\ published_urls' = get_published_urls(ledger)
    /\ Goto("fetch")
    /\ UNCHANGED << env, db_exists, ledger, articles, new_articles, article,
                    post_text, article_url, calls, start_ledger, backups, now >>

\* main, line 176: fetch_articles returns a list, or raises.
Fetch ==
    /\ pc = "fetch"
    /\ \/ /\ \E feed \in Feeds : articles' = feed
          /\ calls' = Append(calls, Call("fetch_articles", None, TRUE))
          /\ Goto("filter")
       \/ /\ articles' = articles
          /\ calls' = Append(calls, Call("fetch_articles", None, FALSE))
          /\ Exit(1, "fetch_articles", "HTTPError")
    /\ UNCHANGED << env, db_exists, ledger, published_urls, new_articles,
                    article, post_text, article_url, start_ledger, backups, now >>

\* main, lines 179-188: the loop appends to new_articles until it ends or raises.
Filter ==
    /\ pc = "filter"
    /\ LET r == FilterArticles(articles, published_urls)
       IN  /\ new_articles' = r.new_articles
           /\ IF r.raised
              THEN Exit(1, "filter", "TypeError")
              ELSE Goto("check")
    /\ UNCHANGED << env, db_exists, ledger, published_urls, articles, article,
                    post_text, article_url, calls, start_ledger, backups, now >>

\* Mutant: nothing to publish reported as a failure.
NoWorkAsError ==
    /\ pc = "check"
    /\ new_articles = << >>
    /\ Exit(1, "none", "none")
    /\ UNCHANGED << env, db_exists, ledger, published_urls, articles,
                    new_articles, article, post_text, article_url, calls,
                    start_ledger, backups, now >>

\* main, lines 190-192.
NoWork ==
    /\ pc = "check"
    /\ new_articles = << >>
    /\ Exit(0, "none", "none")
    /\ UNCHANGED << env, db_exists, ledger, published_urls, articles,
                    new_articles, article, post_text, article_url, calls,
                    start_ledger, backups, now >>

\* main, line 194: get_linkedin_user_id returns, or raises.
GetUserId ==
    /\ pc = "check"
    /\ new_articles # << >>
    /\ \/ /\ calls' = Append(calls, Call("get_linkedin_user_id", None, TRUE))
          /\ Goto("generate")
       \/ /\ calls' = Append(calls, Call("get_linkedin_user_id", None, FALSE))
          /\ Exit(1, "get_linkedin_user_id", "HTTPError")
    /\ UNCHANGED << env, db_exists, ledger, published_urls, articles,
                    new_articles, article, post_text, article_url,
                    start_ledger, backups, now >>

\* Mutant: the last eligible article instead of the first.
SelectLast(eligible) == eligible[Len(eligible)]

\* The article main works on: new_articles[0].
SelectArticle(eligible) == eligible[1]

\* Mutant: a failed generation is logged and the run goes on to publish.
GenerateSwallowingError ==
    /\ pc = "generate"
    /\ article' = SelectArticle(new_articles)
    /\ \E llm \in LlmOutcomes :
          /\ post_text' = llm.text
          /\ calls' = Append(calls, Call("generate_linkedin_post", None,
                                         ~GenerationFails(llm)))
          /\ Goto("publish")
    /\ UNCHANGED << env, db_exists, ledger, published_urls, articles,
                    new_articles, article_url, start_ledger, backups, now >>

\* main, lines 197-209: select, then create_post_text inside try/except.
Generate ==
    /\ pc = "generate"
    /\ article' = SelectArticle(new_articles)
    /\ \E llm \in LlmOutcomes :
          LET r == generate_linkedin_post(llm)
          IN  IF r.raised
              THEN /\ post_text' = post_text
                   /\ calls' = Append(calls,
                                  Call("generate_linkedin_post", None, FALSE))
                   /\ Exit(1, "generate_linkedin_post", r.exc)
              ELSE /\ post_text' = r.text
                   /\ calls' = Append(calls,
                                  Call("generate_linkedin_post", None, TRUE))
                   /\ Goto("publish")
    /\ UNCHANGED << env, db_exists, ledger, published_urls, articles,
                    new_articles, article_url, start_ledger, backups, now >>

\* article.get("link", ""), line 211.
ArticleUrl(a) == DictGetDefault(a.link, "")

\* Mutant: the row is written before the publish call is made.
PublishRecordingFirst ==
    /\ pc = "publish"
    /\ article_url' = ArticleUrl(article)
    /\ ledger' = save_published_article(ledger, article_url').rows
    /\ \/ /\ calls' = Append(calls, Call("post_to_linkedin", article_url', TRUE))
          /\ Goto("backup")
       \/ /\ calls' = Append(calls, Call("post_to_linkedin", article_url', FALSE))
          /\ Exit(1, "post_to_linkedin", "HTTPError")
    /\ UNCHANGED << env, db_exists, published_urls, articles, new_articles,
                    article, post_text, start_ledger, backups, now >>

\* Mutant: the response status is not checked (no raise_for_status).
PublishIgnoringStatus ==
    /\ pc = "publish"
    /\ article_url' = ArticleUrl(article)
    /\ \E ok \in BOOLEAN :
          calls' = Append(calls, Call("post_to_linkedin", article_url', ok))
    /\ Goto("backup")
    /\ UNCHANGED << env, db_exists, ledger, published_urls, articles,
                    new_articles, article, post_text, start_ledger, backups, now >>

\* main, lines 211-215: post_to_linkedin returns, or raise_for_status raises.
Publish ==
    /\ pc = "publish"
    /\ article_url' = ArticleUrl(article)
    /\ \/ /\ calls' = Append(calls, Call("post_to_linkedin", article_url', TRUE))
          /\ Goto("backup")
       \/ /\ calls' = Append(calls, Call("post_to_linkedin", article_url', FALSE))
          /\ Exit(1, "post_to_linkedin", "HTTPError")
    /\ UNCHANGED << env, db_exists, ledger, published_urls, articles,
                    new_articles, article, post_text, start_ledger, backups, now >>

\* Keep only last 5 backups: backups[5:] of the names sorted in reverse.
KeepBackups == 5

\* The files that stay: those with fewer than KeepBackups newer names.
Retained(files) ==
    { f \in files : Cardinality({ g \in files : g > f }) < KeepBackups }

\* backup_db when the copy succeeds: nothing without a store; else the store is
\* copied to published_<second>.db, over a file of that name if there is one,
\* and all but the KeepBackups newest names are unlinked.
backup_db(files, exists, ts) ==
    IF ~exists THEN files ELSE Retained(files \cup {ts})

\* main, line 218: backup_db returns, or the copy raises. The runs of Spec are
\* taken at one reading of the clock (main reads nothing of backups/);
\* SpecBackup lets the clock run.
Backup ==
    /\ pc = "backup"
    /\ \/ /\ backups' = backup_db(backups, db_exists, now)
          /\ calls' = Append(calls, Call("backup_db", None, TRUE))
          /\ Goto("save")
       \/ /\ db_exists
          /\ backups' = backups
          /\ calls' = Append(calls, Call("backup_db", None, FALSE))
          /\ Exit(1, "backup_db", "OSError")
    /\ UNCHANGED << env, db_exists, ledger, published_urls, articles,
                    new_articles, article, post_text, article_url,
                    start_ledger, now >>

\* main, lines 219-222: save_published_article inserts, or the insert raises
\* (a constraint of the url column, or the store cannot be written).
Save ==
    /\ pc = "save"
    /\ \/ /\ save_published_article(ledger, article_url).ok
          /\ ledger' = save_published_article(ledger, article_url).rows
          /\ calls' = Append(calls, Call("save_published_article", article_url, TRUE))
          /\ Exit(0, "none", "none")
       \/ /\ ~save_published_article(ledger, article_url).ok
          /\ ledger' = save_published_article(ledger, article_url).rows
          /\ calls' = Append(calls, Call("save_published_article", article_url, FALSE))
          /\ Exit(1, "save_published_article", "IntegrityError")
       \/ /\ ledger' = ledger
          /\ calls' = Append(calls, Call("save_published_article", article_url, FALSE))
          /\ Exit(1, "save_published_article", "OperationalError")
    /\ UNCHANGED << env, db_exists, published_urls, articles, new_articles,
                    article, post_text, article_url, start_ledger, backups, now >>

\* The scheduler starts the next process once the last one has exited.
NextRun ==
    /\ pc = "exit"
    /\ pc' = "main"
    /\ env' \in Envs
    /\ start_ledger' = ledger
    /\ published_urls' = {}
    /\ articles' = << >>
    /\ new_articles' = << >>
    /\ article' = NoArticle
    /\ post_text' = NoText
    /\ article_url' = None
    /\ exit_code' = Running
    /\ error' = NoError
    /\ calls' = << >>
    /\ UNCHANGED << db_exists, ledger, backups, now >>

Next ==
    \/ CheckConfig
    \/ InitDb
    \/ LoadPublished
    \/ Fetch
    \/ Filter
    \/ NoWork
    \/ GetUserId
    \/ Generate
    \/ Publish
    \/ Backup
    \/ Save
    \/ NextRun

Spec == Init /\ [][Next]_vars

----------------------------------------------------------------------------
\* The ledger on its own: init_db, get_published_urls and
\* save_published_article called in any order, with any url, on the store that
\* init_db has created. calls is the log of these calls.

\* Longest sequence of ledger calls.
MaxCalls == 3

RecordUrls == {"a", "b", "", None}

InitLedger ==
    /\ pc = "ledger"
    /\ env = [access_token |-> None, articles_api_url |-> None]
    /\ db_exists = TRUE
    /\ ledger = << >>
    /\ start_ledger = << >>
    /\ backups = {}
    /\ now = 0
    /\ Locals0

LedgerFrame ==
    UNCHANGED << pc, env, articles, new_articles, article, post_text,
                 article_url, exit_code, start_ledger, backups, now >>

\* init_db on the existing store: CREATE TABLE IF NOT EXISTS.
LedgerInitDb ==
    /\ pc = "ledger"
    /\ Len(calls) < MaxCalls
    /\ db_exists' = TRUE
    /\ calls' = Append(calls, Call("init_db", None, TRUE))
    /\ error' = NoError
    /\ UNCHANGED << ledger, published_urls >>
    /\ LedgerFrame

LedgerKnownUrls ==
    /\ pc = "ledger"
    /\ Len(calls) < MaxCalls
    /\ published_urls' = get_published_urls(ledger)
    /\ calls' = Append(calls, Call("get_published_urls", None, TRUE))
    /\ error' = NoError
    /\ UNCHANGED << db_exists, ledger >>
    /\ LedgerFrame

LedgerRecord ==
    /\ pc = "ledger"
    /\ Len(calls) < MaxCalls
    /\ \E u \in RecordUrls :
          LET r == save_published_article(ledger, u)
          IN  /\ ledger' = r.rows
              /\ calls' = Append(calls, Call("save_published_article", u, r.ok))
              /\ error' = IF r.ok THEN NoError
                          ELSE [at |-> "save_published_article",
                                exc |-> "IntegrityError"]
    /\ UNCHANGED << db_exists, published_urls >>
    /\ LedgerFrame

NextLedger ==
    \/ LedgerInitDb
    \/ LedgerKnownUrls
    \/ LedgerRecord

SpecLedger == InitLedger /\ [][NextLedger]_vars

----------------------------------------------------------------------------
\* backup_db on its own: calls at any times, on an existing store. calls is
\* the log of the calls, each with the second it read from the clock.

\* Most backup_db calls, and the last second of the clock.
MaxBackupCalls == 6
MaxClock == 5

BackupCall(ts, ok) == [op |-> "backup_db", url |-> None, ok |-> ok, at |-> ts]

InitBackup ==
    /\ pc = "backups"
    /\ env = [access_token |-> None, articles_api_url |-> None]
    /\ db_exists = TRUE
    /\ ledger = << >>
    /\ start_ledger = << >>
    /\ backups = {}
    /\ now = 0
    /\ Locals0

BackupFrame ==
    UNCHANGED << pc, env, db_exists, ledger, published_urls, articles,
                 new_articles, article, post_text, article_url, exit_code,
                 error, start_ledger >>

\* A second passes.
Tick ==
    /\ pc = "backups"
    /\ now < MaxClock
    /\ now' = now + 1
    /\ UNCHANGED << backups, calls >>
    /\ BackupFrame

\* backup_db(), at the second the clock shows.
BackupDbCall ==
    /\ pc = "backups"
    /\ Len(calls) < MaxBackupCalls
    /\ backups' = backup_db(backups, db_exists, now)
    /\ calls' = Append(calls, BackupCall(now, TRUE))
    /\ now' = now
    /\ BackupFrame

NextBackup ==
    \/ Tick
    \/ BackupDbCall

SpecBackup == InitBackup /\ [][NextBackup]_vars

----------------------------------------------------------------------------
\* generate_linkedin_post on its own: called with whatever the language model
\* does. calls is the log of the calls, each with what the model did and what
\* the function gave back.

GeneratorCall(llm, r) ==
    [op |-> "generate_linkedin_post", url |-> None, ok |-> ~r.raised,
     llm |-> llm, exc |-> r.exc, returned |-> r.text]

InitGenerator ==
    /\ pc = "generator"
    /\ env = [access_token |-> None, articles_api_url |-> None]
    /\ db_exists = FALSE
    /\ ledger = << >>
    /\ start_ledger = << >>
    /\ backups = {}
    /\ now = 0
    /\ Locals0

GenerateLinkedinPost ==
    /\ pc = "generator"
    /\ Len(calls) < MaxCalls
    /\ \E llm \in LlmOutcomes :
          calls' = Append(calls, GeneratorCall(llm, generate_linkedin_post(llm)))
    /\ UNCHANGED << pc, env, db_exists, ledger, published_urls, articles,
                    new_articles, article, post_text, article_url, exit_code,
                    error, start_ledger, backups, now >>

NextGenerator == GenerateLinkedinPost

SpecGenerator == InitGenerator /\ [][NextGenerator]_vars

----------------------------------------------------------------------------
\* Two runs of main at once on the same store, with no lock between them. Here
\* every local of main (pc, published_urls, articles, new_articles, article,
\* post_text, article_url, exit_code, error, calls) is a function of the
\* process; the store, the ledger and backups/ are shared. Each sqlite
\* statement is one step: sqlite serialises the statements, not the runs.

Procs == {1, 2}

\* Longest feed the two runs are given.
MaxOverlapFeed == 1

OverlapFeeds == UNION { [1..n -> Candidates] : n \in 0..MaxOverlapFeed }

InitOverlap ==
    /\ pc = [p \in Procs |-> "init_db"]
    /\ env = [access_token |-> "token", articles_api_url |-> "url"]
    /\ db_exists = FALSE
    /\ ledger = << >>
    /\ start_ledger = << >>
    /\ backups = {}
    /\ now = 0
    /\ published_urls = [p \in Procs |-> {}]
    /\ articles = [p \in Procs |-> << >>]
    /\ new_articles = [p \in Procs |-> << >>]
    /\ article = [p \in Procs |-> NoArticle]
    /\ post_text = [p \in Procs |-> NoText]
    /\ article_url = [p \in Procs |-> None]
    /\ exit_code = [p \in Procs |-> Running]
    /\ error = [p \in Procs |-> NoError]
    /\ calls = [p \in Procs |-> << >>]

ProcGoto(p, label) ==
    /\ pc' = [pc EXCEPT ![p] = label]
    /\ UNCHANGED << exit_code, error >>

ProcExit(p, code, at, exc) ==
    /\ pc' = [pc EXCEPT ![p] = "exit"]
    /\ exit_code' = [exit_code EXCEPT ![p] = code]
    /\ error' = [error EXCEPT ![p] = [at |-> at, exc |-> exc]]

ProcLog(p, c) == calls' = [calls EXCEPT ![p] = Append(@, c)]

\* The process has its feed.
Fetched(q) ==
    \E i \in DOMAIN calls[q] : calls[q][i].op = "fetch_articles" /\ calls[q][i].ok

\* main, line 168.
OverlapInitDb(p) ==
    /\ pc[p] = "init_db"
    /\ \/ /\ db_exists' = TRUE
          /\ ProcLog(p, Call("init_db", None, TRUE))
          /\ ProcGoto(p, "load")
       \/ /\ db_exists' = db_exists
          /\ ProcLog(p, Call("init_db", None, FALSE))
          /\ ProcExit(p, 1, "init_db", "OperationalError")
    /\ UNCHANGED << env, ledger, published_urls, articles, new_articles,
                    article, post_text, article_url, start_ledger, backups, now >>

\* main, line 171.
OverlapLoad(p) ==
    /\ pc[p] = "load"
    /\ published_urls' = [published_urls EXCEPT ![p] = get_published_urls(ledger)]
    /\ ProcGoto(p, "fetch")
    /\ UNCHANGED << env, db_exists, ledger, articles, new_articles, article,
                    post_text, article_url, calls, start_ledger, backups, now >>

\* main, line 176: both runs are served the same feed.
OverlapFetch(p) ==
    /\ pc[p] = "fetch"
    /\ \/ /\ \E feed \in OverlapFeeds :
                /\ \A q \in Procs \ {p} : Fetched(q) => feed = articles[q]
                /\ articles' = [articles EXCEPT ![p] = feed]
          /\ ProcLog(p, Call("fetch_articles", None, TRUE))
          /\ ProcGoto(p, "filter")
       \/ /\ articles' = articles
          /\ ProcLog(p, Call("fetch_articles", None, FALSE))
          /\ ProcExit(p, 1, "fetch_articles", "HTTPError")
    /\ UNCHANGED << env, db_exists, ledger, published_urls, new_articles,
                    article, post_text, article_url, start_ledger, backups, now >>

\* main, lines 179-188.
OverlapFilter(p) ==
    /\ pc[p] = "filter"
    /\ LET r == FilterArticles(articles[p], published_urls[p])
       IN  /\ new_articles' = [new_articles EXCEPT ![p] = r.new_articles]
           /\ IF r.raised
              THEN ProcExit(p, 1, "filter", "TypeError")
              ELSE ProcGoto(p, "check")
    /\ UNCHANGED << env, db_exists, ledger, published_urls, articles, article,
                    post_text, article_url, calls, start_ledger, backups, now >>

\* main, lines 190-192.
OverlapNoWork(p) ==
    /\ pc[p] = "check"
    /\ new_articles[p] = << >>
    /\ ProcExit(p, 0, "none", "none")
    /\ UNCHANGED << env, db_exists, ledger, published_urls, articles,
                    new_articles, article, post_text, article_url, calls,
                    start_ledger, backups, now >>

\* main, line 194.
OverlapGetUserId(p) ==
    /\ pc[p] = "check"
    /\ new_articles[p] # << >>
    /\ \/ /\ ProcLog(p, Call("get_linkedin_user_id", None, TRUE))
          /\ ProcGoto(p, "generate")
       \/ /\ ProcLog(p, Call("get_linkedin_user_id", None, FALSE))
          /\ ProcExit(p, 1, "get_linkedin_user_id", "HTTPError")
    /\ UNCHANGED << env, db_exists, ledger, published_urls, articles,
                    new_articles, article, post_text, article_url,
                    start_ledger, backups, now >>

\* main, lines 197-209.
OverlapGenerate(p) ==
    /\ pc[p] = "generate"
    /\ article' = [article EXCEPT ![p] = SelectArticle(new_articles[p])]
    /\ \E llm \in LlmOutcomes :
          LET r == generate_linkedin_post(llm)
          IN  IF r.raised
              THEN /\ post_text' = post_text
                   /\ ProcLog(p, Call("generate_linkedin_post", None, FALSE))
                   /\ ProcExit(p, 1, "generate_linkedin_post", r.exc)
              ELSE /\ post_text' = [post_text EXCEPT ![p] = r.text]
                   /\ ProcLog(p, Call("generate_linkedin_post", None, TRUE))
                   /\ ProcGoto(p, "publish")
    /\ UNCHANGED << env, db_exists, ledger, published_urls, articles,
                    new_articles, article_url, start_ledger, backups, now >>

\* main, lines 211-215.
OverlapPublish(p) ==
    /\ pc[p] = "publish"
    /\ article_url' = [article_url EXCEPT ![p] = ArticleUrl(article[p])]
    /\ \/ /\ ProcLog(p, Call("post_to_linkedin", article_url'[p], TRUE))
          /\ ProcGoto(p, "backup")
       \/ /\ ProcLog(p, Call("post_to_linkedin", article_url'[p], FALSE))
          /\ ProcExit(p, 1, "post_to_linkedin", "HTTPError")
    /\ UNCHANGED << env, db_exists, ledger, published_urls, articles,
                    new_articles, article, post_text, start_ledger, backups, now >>

\* main, line 218.
OverlapBackup(p) ==
    /\ pc[p] = "backup"
    /\ \/ /\ backups' = backup_db(backups, db_exists, now)
          /\ ProcLog(p, Call("backup_db", None, TRUE))
          /\ ProcGoto(p, "save")
       \/ /\ backups' = backups
          /\ ProcLog(p, Call("backup_db", None, FALSE))
          /\ ProcExit(p, 1, "backup_db", "OSError")
    /\ UNCHANGED << env, db_exists, ledger, published_urls, articles,
                    new_articles, article, post_text, article_url,
                    start_ledger, now >>

\* main, line 219: the INSERT of this process, against the rows as they are now.
OverlapSave(p) ==
    /\ pc[p] = "save"
    /\ \/ /\ save_published_article(ledger, article_url[p]).ok
          /\ ledger' = save_published_article(ledger, article_url[p]).rows
          /\ ProcLog(p, Call("save_published_article", article_url[p], TRUE))
          /\ ProcExit(p, 0, "none", "none")
       \/ /\ ~save_published_article(ledger, article_url[p]).ok
          /\ ledger' = save_published_article(ledger, article_url[p]).rows
          /\ ProcLog(p, Call("save_published_article", article_url[p], FALSE))
          /\ ProcExit(p, 1, "save_published_article", "IntegrityError")
       \/ /\ ledger' = ledger
          /\ ProcLog(p, Call("save_published_article", article_url[p], FALSE))
          /\ ProcExit(p, 1, "save_published_article", "OperationalError")
    /\ UNCHANGED << env, db_exists, published_urls, articles, new_articles,
                    article, post_text, article_url, start_ledger, backups, now >>

NextOverlap ==
    \E p \in Procs :
        \/ OverlapInitDb(p)
        \/ OverlapLoad(p)
        \/ OverlapFetch(p)
        \/ OverlapFilter(p)
        \/ OverlapNoWork(p)
        \/ OverlapGetUserId(p)
        \/ OverlapGenerate(p)
        \/ OverlapPublish(p)
        \/ OverlapBackup(p)
        \/ OverlapSave(p)

SpecOverlap == InitOverlap /\ [][NextOverlap]_vars

----------------------------------------------------------------------------
\* Reading the log of a run.

Made(op) == { i \in DOMAIN calls : calls[i].op = op }

Succeeded(op) == { i \in Made(op) : calls[i].ok }

Failed(op) == { i \in Made(op) : ~calls[i].ok }

\* The run got past the eligibility loop, or died in it.
FilterDone == Succeeded("fetch_articles") # {} /\ pc # "filter"

\* The eligible sequence of the run, as the loop computes it.
Eligible == FilterArticles(articles, published_urls)

----------------------------------------------------------------------------
\* C1: a url that is in the ledger when a run starts is never passed to
\* post_to_linkedin in that run.
C1_RecordedUrlNeverRepublished ==
    \A i \in Made("post_to_linkedin") :
        calls[i].url \notin get_published_urls(start_ledger)

\* C2: the ledger only gains rows at its end, and every row a run adds is for a
\* url whose post_to_linkedin call succeeded earlier in that run, before the
\* save_published_article call that wrote it.
C2_RecordOnlyAfterPublish ==
    /\ Len(ledger) >= Len(start_ledger)
    /\ SubSeq(ledger, 1, Len(start_ledger)) = start_ledger
    /\ \A k \in (Len(start_ledger) + 1)..Len(ledger) :
          \E i \in Succeeded("post_to_linkedin") :
             /\ calls[i].url = ledger[k].url
             /\ \E j \in Succeeded("save_published_article") :
                   j > i /\ calls[j].url = ledger[k].url

C2_Witness ==
    /\ pc = "exit"
    /\ Len(start_ledger) >= 1
    /\ Len(ledger) = Len(start_ledger) + 1

\* C3: a run whose publish call succeeded has the published url in the ledger
\* when it ends.
C3_PublishedIsRecordedAtExit ==
    (pc = "exit" /\ Succeeded("post_to_linkedin") # {})
        => article_url \in get_published_urls(ledger)

\* C4 (as stated): when generation fails, the run exits with 1, no call of the
\* Publisher (get_linkedin_user_id, post_to_linkedin) is made in the run, and
\* the ledger gains no row.
C4_NoPublisherCallOnGenerationError ==
    Failed("generate_linkedin_post") # {}
        => /\ pc = "exit" /\ exit_code = 1
           /\ Made("get_linkedin_user_id") = {}
           /\ Made("post_to_linkedin") = {}
           /\ ledger = start_ledger

\* C4 (amended): when generation fails, the run exits with 1 on
\* PostGenerationError, post_to_linkedin, backup_db and save_published_article
\* are never called, and the ledger is as the run found it; the identity call
\* get_linkedin_user_id was made, successfully, before the generation.
C4_NoPublishOnGenerationError ==
    Failed("generate_linkedin_post") # {}
        => /\ pc = "exit" /\ exit_code = 1
           /\ error.exc = "PostGenerationError"
           /\ Made("post_to_linkedin") = {}
           /\ Made("backup_db") = {}
           /\ Made("save_published_article") = {}
           /\ ledger = start_ledger
           /\ \E i \in Succeeded("get_linkedin_user_id") :
                 \A j \in Made("generate_linkedin_post") : i < j

C4_Witness ==
    /\ pc = "exit"
    /\ Failed("generate_linkedin_post") # {}
    /\ Len(new_articles) = 2

\* C5: when the publish call fails, the run exits with 1, backup_db and
\* save_published_article are not called, the ledger is as the run found it,
\* and the filter applied to the same feed and to the ledger as the run leaves
\* it selects the same article again.
C5_PublishFailureLeavesArticleEligible ==
    Failed("post_to_linkedin") # {}
        => /\ pc = "exit" /\ exit_code = 1
           /\ Made("backup_db") = {}
           /\ Made("save_published_article") = {}
           /\ ledger = start_ledger
           /\ LET again == FilterArticles(articles, get_published_urls(ledger))
              IN  /\ ~again.raised
                  /\ again.new_articles # << >>
                  /\ again.new_articles[1] = article

C5_Witness ==
    /\ pc = "exit"
    /\ Failed("post_to_linkedin") # {}
    /\ Len(start_ledger) >= 1
    /\ Len(articles) = 2
    /\ article = articles[2]

EndedWithNoWork ==
    /\ Succeeded("fetch_articles") # {}
    /\ ~Eligible.raised
    /\ Eligible.new_articles = << >>
    /\ \A op \in { "get_linkedin_user_id", "generate_linkedin_post",
                   "post_to_linkedin", "backup_db", "save_published_article" } :
          Made(op) = {}

\* The run ended with the article published and recorded.
EndedRecorded ==
    /\ Succeeded("post_to_linkedin") # {}
    /\ Succeeded("save_published_article") # {}
    /\ article_url \in get_published_urls(ledger)

\* C7: a run exits with 0 exactly when it ended with nothing to publish or with
\* publish and record both done, and with 1 whenever an error ended it.
C7_ExitCode ==
    pc = "exit"
        => /\ exit_code \in {0, 1}
           /\ exit_code = 0 <=> (EndedWithNoWork \/ EndedRecorded)
           /\ error.at # "none" => exit_code = 1
           /\ exit_code = 1 => error.at # "none"

C7_Witness ==
    /\ pc = "exit"
    /\ exit_code = 0
    /\ EndedWithNoWork
    /\ articles # << >>

\* The filter of the specification: unpublished, publishedAt parses, and the
\* parsed instant is at or after the cutoff; source order kept.
SpecEligible(arts, known) ==
    LET Keep(a) ==
            /\ DictGet(a.link) \notin known
            /\ a.publishedAt.form = "iso"
            /\ a.publishedAt.t - TzOffset(a.publishedAt.tz) >= MIN_PUBLISH_DATE.local
    IN  SelectSeq(arts, Keep)

\* C8: for every fetched list and known-url set the loop returns, and returns
\* exactly the specification's eligible subsequence.
C8_FilterReturnsEligible ==
    FilterDone
        => /\ error.at # "filter"
           /\ new_articles = SpecEligible(articles, published_urls)

\* C9: in every fetched list, an unpublished article dated exactly at the
\* cutoff is kept by the loop, one dated one tick before it is dropped, and one
\* whose publishedAt is absent or malformed is dropped whatever its link.
C9_CutoffBoundary ==
    FilterDone
        => LET kept == Range(new_articles)
           IN  \A i \in DOMAIN articles :
                  LET a == articles[i]
                  IN  /\ (a.publishedAt = Iso(0, "Z")
                            /\ DictGet(a.link) \notin published_urls)
                         => a \in kept
                      /\ a.publishedAt = Iso(-1, "Z") => a \notin kept
                      /\ a.publishedAt \in {AbsentDate, Malformed}
                         => a \notin kept

\* The articles the loop has dealt with: all of them, or those before the one
\* it raised at.
Processed ==
    LET e == Eligible
    IN  IF e.raised THEN 1..(e.at - 1) ELSE DOMAIN articles

\* What does hold of the cutoff: the same, of the articles the loop gets to
\* before it ends or raises; and it never raises at an article whose
\* publishedAt is absent or malformed.
CutoffBoundaryWhereReached ==
    FilterDone
        => LET e == Eligible
               kept == Range(new_articles)
           IN  /\ \A i \in Processed :
                     LET a == articles[i]
                     IN  /\ (a.publishedAt = Iso(0, "Z")
                               /\ DictGet(a.link) \notin published_urls)
                            => a \in kept
                         /\ a.publishedAt = Iso(-1, "Z") => a \notin kept
                         /\ a.publishedAt \in {AbsentDate, Malformed}
                            => a \notin kept
               /\ e.raised
                     => articles[e.at].publishedAt \notin {AbsentDate, Malformed}
               /\ error.at = "filter" <=> e.raised

\* The urls of the successful save_published_article calls, in call order.
RecordedUrls ==
    LET OkSave(c) == c.op = "save_published_article" /\ c.ok
        oks == SelectSeq(calls, OkSave)
    IN  [k \in DOMAIN oks |-> oks[k].url]

\* C10: on a store that starts empty, a save_published_article call with a url
\* succeeds exactly when no earlier call was made with that url; a call with a
\* url already in the ledger fails with IntegrityError and adds no row (the
\* rows are those of the successful calls, in order); so once a url has been
\* passed to save_published_article, however often, get_published_urls
\* contains it and exactly one row holds it.
C10_DuplicateRecordRejected ==
    /\ [k \in DOMAIN ledger |-> ledger[k].url] = RecordedUrls
    /\ \A j \in Made("save_published_article") :
          calls[j].url # None
             => /\ calls[j].ok
                   <=> ~\E i \in Made("save_published_article") :
                           i < j /\ calls[i].url = calls[j].url
                /\ calls[j].url \in get_published_urls(ledger)
                /\ Cardinality({ k \in DOMAIN ledger :
                                    ledger[k].url = calls[j].url }) = 1
    /\ (calls # << >> /\ Len(calls) \in Failed("save_published_article"))
          => error.exc = "IntegrityError"

C10_Witness ==
    /\ Len(calls) = 3
    /\ calls[1] = Call("save_published_article", "a", TRUE)
    /\ calls[2] = Call("save_published_article", "", TRUE)
    /\ calls[3] = Call("save_published_article", "a", FALSE)
    /\ Len(ledger) = 2

Min(x, y) == IF x <= y THEN x ELSE y

\* The seconds at which backup_db has been called.
BackupSeconds == { calls[i].at : i \in Made("backup_db") }

\* C11: after any backup_db calls, at any times, exactly
\* min(KeepBackups, number of calls) backup files remain, and they are the
\* newest ones made.
C11_BackupRetention ==
    /\ Cardinality(backups) = Min(KeepBackups, Cardinality(Made("backup_db")))
    /\ backups = Retained(BackupSeconds)

\* What does hold: one file per second in which backup_db was called, the
\* KeepBackups newest of them.
BackupRetentionPerSecond ==
    /\ Cardinality(backups) = Min(KeepBackups, Cardinality(BackupSeconds))
    /\ backups = Retained(BackupSeconds)
    /\ \A f \in BackupSeconds \ backups : \A g \in backups : f < g

\* C12: when a run ended with its article published and recorded, the next run
\* over the same articles (its filter applied to them and to the ledger as
\* left) selects nothing.
C12_SecondRunSelectsNothing ==
    (pc = "exit" /\ EndedRecorded)
        => LET again == FilterArticles(articles, get_published_urls(ledger))
           IN  ~again.raised /\ again.new_articles = << >>

\* C13: a run that ends on an error leaves the ledger as it found it, and
\* leaves nothing published that is not recorded.
C13_FatalErrorNoPartialCommit ==
    (pc = "exit" /\ error.at # "none")
        => /\ ledger = start_ledger
           /\ \A i \in Succeeded("post_to_linkedin") :
                 calls[i].url \in get_published_urls(ledger)

\* The part of C13 that holds: no run that ends on an error has changed the
\* ledger.
FatalErrorLeavesLedger ==
    (pc = "exit" /\ error.at # "none") => ledger = start_ledger

ConfigMissing == env.access_token = None \/ env.articles_api_url = None

\* C14: with the access token or the articles url missing, the first step of
\* the run is its last: it exits with 1 from the configuration check, having
\* made no call, with the store neither created nor read and no backup or row
\* written.
C14_ConfigMissingExitsFirst ==
    [][ (pc = "main" /\ ConfigMissing)
            => /\ pc' = "exit"
               /\ exit_code' = 1
               /\ error'.at = "config"
               /\ calls = << >> /\ calls' = << >>
               /\ db_exists' = db_exists
               /\ ledger' = ledger /\ ledger = start_ledger
               /\ published_urls' = {}
               /\ articles' = << >>
               /\ backups' = backups ]_vars

C14_Witness ==
    /\ pc = "exit"
    /\ exit_code = 1
    /\ error.at = "config"
    /\ calls = << >>
    /\ ~db_exists
    /\ env.access_token = "token"
    /\ env.articles_api_url = None

\* C15: no run calls save_published_article with a url that is already in the
\* ledger, so the insert never raises IntegrityError; and a run in which it
\* does raise ends on that error with exit code 1.
C15_RecordNeverDuplicate ==
    /\ \A i \in Made("save_published_article") :
          calls[i].url \notin get_published_urls(start_ledger)
    /\ error.exc # "IntegrityError"

\* The part of C15 that holds: a failed insert is not swallowed.
RecordErrorPropagates ==
    Failed("save_published_article") # {}
        => /\ pc = "exit" /\ exit_code = 1
           /\ error.at = "save_published_article"
           /\ ledger = start_ledger

\* C16: every step keeps the rows the ledger has, in place; init_db on an
\* existing store changes nothing; get_published_urls returns the urls of all
\* rows; and a run starts from the ledger the runs before it left.
C16_LedgerOnlyGrows ==
    [][ /\ Len(ledger') >= Len(ledger)
        /\ SubSeq(ledger', 1, Len(ledger)) = ledger
        /\ pc = "init_db" => (ledger' = ledger /\ (db_exists => db_exists'))
        /\ pc = "load"
              => /\ published_urls' = get_published_urls(ledger)
                 /\ get_published_urls(start_ledger) \subseteq published_urls'
        /\ pc = "backup" => ledger' = ledger
        /\ pc' = "exit" /\ error'.at # "none" => ledger' = ledger
        /\ pc' = "main" => (start_ledger' = ledger /\ ledger' = ledger) ]_vars

C16_Witness ==
    /\ pc = "exit"
    /\ Len(start_ledger) >= 1
    /\ Len(ledger) > Len(start_ledger)
    /\ published_urls = get_published_urls(start_ledger)
    /\ Succeeded("init_db") # {}

\* C17: generate_linkedin_post returns a text only when the model returned it
\* and it has MinPostLength characters or more once stripped; when the model
\* raises, or returns an empty text or one shorter than that once stripped, it
\* raises PostGenerationError and returns nothing.
C17_GeneratorValidates ==
    \A i \in Made("generate_linkedin_post") :
        LET c == calls[i]
            bad == \/ c.llm.raised
                   \/ TextLen(c.llm.text) = 0
                   \/ StripLen(c.llm.text) < MinPostLength
        IN  /\ c.ok => /\ ~bad
                       /\ c.returned = c.llm.text
                       /\ StripLen(c.returned) >= MinPostLength
            /\ bad => /\ ~c.ok
                      /\ c.exc = "PostGenerationError"
                      /\ c.returned = NoText

C17_Witness ==
    \E i, j, k \in Made("generate_linkedin_post") :
        /\ calls[i].ok /\ StripLen(calls[i].returned) = MinPostLength
        /\ ~calls[j].ok /\ ~calls[j].llm.raised
        /\ StripLen(calls[j].llm.text) = MinPostLength - 1
        /\ ~calls[k].ok /\ calls[k].llm.raised

\* The calls of process p to op that returned.
ProcSucceeded(p, op) ==
    { i \in DOMAIN calls[p] : calls[p][i].op = op /\ calls[p][i].ok }

\* C18: however the steps of two overlapping runs interleave, no two rows of
\* the ledger have the same url, and of two runs that try to record the same
\* url at most one succeeds.
C18_NoDuplicateRowsUnderOverlap ==
    /\ \A i, j \in DOMAIN ledger : ledger[i].url = ledger[j].url => i = j
    /\ \A p, q \in Procs :
          (/\ p # q
           /\ ProcSucceeded(p, "save_published_article") # {}
           /\ ProcSucceeded(q, "save_published_article") # {})
              => article_url[p] # article_url[q]

\* Both runs passed the known-url check and published the same url; one
\* recorded it, the other's insert was rejected.
C18_Witness ==
    /\ \A p \in Procs : pc[p] = "exit"
    /\ \A p \in Procs : ProcSucceeded(p, "post_to_linkedin") # {}
    /\ article_url[1] = article_url[2]
    /\ Len(ledger) = 1
    /\ \E p \in Procs : error[p].exc = "IntegrityError"

\* C19: the eligibility loop never ends the run: whatever publishedAt the
\* fetched articles carry, the loop keeps or discards each of them and the run
\* goes on to the no-work check.
C19_FilterNeverAborts ==
    /\ error.at # "filter"
    /\ pc = "filter" => ~FilterArticles(articles, published_urls).raised

\* C20: the url a run writes to the ledger is the value of the article's link
\* that its loop tested against published_urls, so that the test finds the
\* article in the ledger afterwards; also for an article with no link.
C20_RecordedUrlIsTestedLink ==
    \A i \in Succeeded("save_published_article") :
        /\ calls[i].url = DictGet(article.link)
        /\ DictGet(article.link) \in get_published_urls(ledger)

====
